---- MODULE Spec2Model ----
(***************************************************************************)
(* A model of marshmallow's schema engine (src/marshmallow/schema.py):     *)
(* the field-set selection of BaseSchema._update_fields and the dump and   *)
(* load pipelines of BaseSchema.dump and BaseSchema._do_load, with their   *)
(* hooks, validators and error aggregation.                                *)
(*                                                                         *)
(* A schema instance is the record `schema`; one dump / load / validate    *)
(* call is one action, and `call` records what the call did: the hooks it  *)
(* invoked in order, the failures reported to it, and what it handed back. *)
(***************************************************************************)
EXTENDS Integers, Sequences, FiniteSets, TLC

VARIABLES schema, call

vars == <<schema, call>>

(* Bounds of the model. *)
MaxItems == 2     \* longest collection passed with many=True
NumHooks == 2     \* hooks registered per (tag, pass_many) key when any are

(***************************************************************************)
(* Values.                                                                 *)
(* Native values are 1, 2, 3 (int) and 7 (a str that is not a number).     *)
(* On the wire an int v is 10 + v and the str is 17.                       *)
(***************************************************************************)
NoIndex == -1
None == [kind |-> "none", items |-> <<>>]
SCHEMA == "_schema"

Single(d) == [kind |-> "dict", items |-> <<d>>]
List(s) == [kind |-> "list", items |-> s]
Cursor(s) == [kind |-> "cursor", items |-> s]

\* Python truth value of a dump/load argument: None and empty dicts and
\* lists are false; a cursor-like collection defines no __len__ and is true.
Truthy(obj) ==
    CASE obj.kind = "none" -> FALSE
      [] obj.kind = "dict" -> DOMAIN obj.items[1] # {}
      [] obj.kind = "list" -> Len(obj.items) > 0
      [] OTHER -> TRUE

IsCollection(obj) == obj.kind \in {"list", "cursor"}

Names == {"a", "b", "c"}

\* a dict with the given values under "a", "b", "c"; 0 leaves the key out
Dict(a, b, c) ==
    LET v == [n \in Names |-> IF n = "a" THEN a ELSE IF n = "b" THEN b ELSE c]
    IN [n \in {m \in Names : v[m] # 0} |-> v[n]]

\* The(S) is the element of a one-element set.  The({F(x) : x \in {e}})
\* is F(e) with e evaluated once, however often F uses x.
The(S) == CHOOSE x \in S : TRUE

RECURSIVE SetToSeq(_)
SetToSeq(S) ==
    IF S = {} THEN <<>>
    ELSE LET x == CHOOSE y \in S : \A z \in S : y <= z
         IN <<x>> \o SetToSeq(S \ {x})

\* the names of a set in a fixed (alphabetical) iteration order
NameSeq(S) ==
    LET rank == [n \in Names |-> IF n = "a" THEN 1 ELSE IF n = "b" THEN 2 ELSE 3]
        R == SetToSeq({rank[n] : n \in S})
    IN [i \in 1..Len(R) |-> CHOOSE n \in S : rank[n] = R[i]]

(***************************************************************************)
(* Field contracts (marshmallow.fields, an external collaborator).         *)
(***************************************************************************)
FieldObj(type, required) ==
    [type |-> type, required |-> required, load_only |-> FALSE, dump_only |-> FALSE]

\* class-level declared fields: two required integer fields
_declared_fields == [n \in {"a", "b"} |-> FieldObj("Integer", TRUE)]

TypeOf(v) == IF v = 7 THEN "str" ELSE "int"

TYPE_MAPPING(t) == IF t = "str" THEN "String" ELSE "Integer"

\* field_obj.serialize: [ok, value]
serialize(field_obj, v) ==
    CASE field_obj.type = "Integer" ->
            IF v \in 1..3 THEN [ok |-> TRUE, value |-> v + 10]
            ELSE [ok |-> FALSE, value |-> 0]
      [] field_obj.type = "String" ->
            [ok |-> TRUE, value |-> IF v = 7 THEN 17 ELSE v + 20]
      [] OTHER -> [ok |-> TRUE, value |-> v]

\* field_obj.deserialize: [ok, value]
deserialize(field_obj, w) ==
    CASE field_obj.type = "Integer" ->
            IF w \in 11..13 THEN [ok |-> TRUE, value |-> w - 10]
            ELSE [ok |-> FALSE, value |-> 0]
      [] field_obj.type = "String" ->
            IF w = 17 THEN [ok |-> TRUE, value |-> 7]
            ELSE IF w \in 21..23 THEN [ok |-> TRUE, value |-> w - 20]
            ELSE [ok |-> FALSE, value |-> 0]
      [] OTHER -> [ok |-> TRUE, value |-> w]

(***************************************************************************)
(* Field Set selection: BaseSchema._update_fields / __filter_fields.       *)
(***************************************************************************)
\* [ok, fields, key]: ok is FALSE when the lookup error of line 732 is
\* raised, and key is then the name the error message gives
__filter_fields(self, field_names, obj0, many) ==
    LET empty == Truthy(obj0) /\ many /\ Len(obj0.items) = 0
        obj == IF Truthy(obj0) /\ many /\ ~empty THEN Single(obj0.items[1]) ELSE obj0
        implicit == {k \in field_names : k \notin DOMAIN self.declared_fields}
        lacks == {k \in implicit : Truthy(obj) /\ k \notin DOMAIN obj.items[1]}
        ret == [k \in field_names |->
                  IF k \in DOMAIN self.declared_fields THEN self.declared_fields[k]
                  ELSE IF Truthy(obj)
                       THEN FieldObj(TYPE_MAPPING(TypeOf(obj.items[1][k])), FALSE)
                       ELSE FieldObj("Field", FALSE)]
    IN IF empty THEN [ok |-> TRUE, fields |-> self.declared_fields, key |-> ""]
       ELSE IF lacks # {}
            THEN [ok |-> FALSE, fields |-> self.fields, key |-> NameSeq(lacks)[1]]
       ELSE [ok |-> TRUE, fields |-> ret, key |-> ""]

\* the names chosen by lines 642-661
field_names_of(self) ==
    LET chosen ==
            IF self.only # {}
            THEN IF self.opts.fields # {}
                 THEN self.opts.fields \cap self.only
                 ELSE self.only
            ELSE IF self.opts.fields # {} THEN self.opts.fields
            ELSE IF self.opts.additional # {}
                 THEN DOMAIN self.declared_fields \cup self.opts.additional
            ELSE DOMAIN self.declared_fields
        excludes == self.opts.exclude \cup self.exclude
    IN IF excludes # {} THEN chosen \ excludes ELSE chosen

_update_fields(self, obj, many) ==
    __filter_fields(self, field_names_of(self), obj, many)

(***************************************************************************)
(* The hook registry (__processors__) and the hooks of the modelled schema *)
(* class.  A schema class registers either no hooks at all or NumHooks     *)
(* hooks under every (tag, pass_many) key; self.hooks is that number.      *)
(***************************************************************************)
PRE_DUMP == "pre_dump"
POST_DUMP == "post_dump"
PRE_LOAD == "pre_load"
POST_LOAD == "post_load"
VALIDATES == "validates"
VALIDATES_SCHEMA == "validates_schema"

\* self.__processors__[(tag, pass_many)]: the registered hooks, in order
__processors__(self, tag, pass_many) == [k \in 1..self.hooks |-> k]

Entry(tag, pass_many, k, arg) ==
    [tag |-> tag, pass_many |-> pass_many, k |-> k, arg |-> arg]

\* What a hook leaves on an item: it appends its own digit to the item's
\* "t" key, so that an item shows which hooks transformed it and in what order.
Mark(d, digit) ==
    [n \in DOMAIN d \cup {"t"} |->
        IF n = "t" THEN 10 * (IF "t" \in DOMAIN d THEN d["t"] ELSE 0) + digit
        ELSE d[n]]

\* The k-th processor of a key, applied to `data` (an item for a non-batch
\* hook, the whole argument for a batch hook).  Odd hooks return None,
\* even hooks return the data with every item marked.
processor(pass_many, k, data) ==
    IF k % 2 = 1 \/ data.kind = "none" THEN None
    ELSE [data EXCEPT !.items =
            [i \in 1..Len(data.items) |->
                Mark(data.items[i], IF pass_many THEN k ELSE k + 4)]]

if_none(value, default) == IF value = None THEN default ELSE value

\* mutant: what a hook returns is dropped
invoke_processor_drops_result(tag_name, pass_many, k, st, many) ==
    IF ~pass_many /\ many
    THEN [st EXCEPT
            !.log = st.log \o [i \in 1..Len(st.data.items) |->
                        Entry(tag_name, FALSE, k, Single(st.data.items[i]))]]
    ELSE [st EXCEPT !.log = Append(st.log, Entry(tag_name, pass_many, k, st.data))]

\* one iteration of the loop of _invoke_processors, lines 828-850
invoke_processor(tag_name, pass_many, k, st, many) ==
    IF pass_many
    THEN [st EXCEPT !.data = if_none(processor(TRUE, k, st.data), st.data),
                    !.log = Append(st.log, Entry(tag_name, TRUE, k, st.data))]
    ELSE IF many
    THEN [st EXCEPT
            !.data = List([i \in 1..Len(st.data.items) |->
                        if_none(processor(FALSE, k, Single(st.data.items[i])),
                                Single(st.data.items[i])).items[1]]),
            !.log = st.log \o [i \in 1..Len(st.data.items) |->
                        Entry(tag_name, FALSE, k, Single(st.data.items[i]))]]
    ELSE [st EXCEPT !.data = if_none(processor(FALSE, k, st.data), st.data),
                    !.log = Append(st.log, Entry(tag_name, FALSE, k, st.data))]

RECURSIVE invoke_processors_from(_, _, _, _, _, _)
invoke_processors_from(procs, tag_name, pass_many, st, many, i) ==
    IF i > Len(procs) THEN st
    ELSE The({invoke_processors_from(procs, tag_name, pass_many, next, many, i + 1) :
                next \in {invoke_processor(tag_name, pass_many, procs[i], st, many)}})

_invoke_processors(self, tag_name, pass_many, st, many) ==
    invoke_processors_from(__processors__(self, tag_name, pass_many),
                           tag_name, pass_many, st, many, 1)

\* mutant: the batch hooks of a dump phase run first
_invoke_dump_processors_batch_first(self, tag_name, st, many) ==
    The({_invoke_processors(self, tag_name, FALSE, data, many) :
            data \in {_invoke_processors(self, tag_name, TRUE, st, many)}})

_invoke_dump_processors(self, tag_name, st, many) ==
    The({_invoke_processors(self, tag_name, TRUE, data, many) :
            data \in {_invoke_processors(self, tag_name, FALSE, st, many)}})

\* mutant: the per-item hooks of a load phase run first
_invoke_load_processors_items_first(self, tag_name, st, many) ==
    The({_invoke_processors(self, tag_name, TRUE, data, many) :
            data \in {_invoke_processors(self, tag_name, FALSE, st, many)}})

_invoke_load_processors(self, tag_name, st, many) ==
    The({_invoke_processors(self, tag_name, FALSE, data, many) :
            data \in {_invoke_processors(self, tag_name, TRUE, st, many)}})

(***************************************************************************)
(* The error store of marshmallow.marshalling (ErrorStore, Marshaller,     *)
(* Unmarshaller).  An error map is a function from paths <<index, key>> to *)
(* message lists: <<NoIndex, "a">> is errors["a"], <<1, "a">> is           *)
(* errors[1]["a"].                                                         *)
(***************************************************************************)
NoErrors == [p \in {} |-> <<>>]

\* two paths lie under the same top-level key of the dict
SameTop(p, q) == p[1] = q[1] /\ (p[1] = NoIndex => p[2] = q[2])

\* dict.update: every top-level key of `other` replaces that key of `d`
dict_update(d, other) ==
    LET kept == {p \in DOMAIN d : \A q \in DOMAIN other : ~SameTop(p, q)}
    IN [p \in kept \cup DOMAIN other |-> IF p \in DOMAIN other THEN other[p] ELSE d[p]]

\* get_errors(index).setdefault(field_name, []).extend(messages)
store_error(errors, index, field_name, messages) ==
    LET p == <<index, field_name>>
    IN [q \in DOMAIN errors \cup {p} |->
          IF q = p THEN (IF p \in DOMAIN errors THEN errors[p] ELSE <<>>) \o messages
          ELSE errors[q]]

Report(source, index, field_name, messages) ==
    [source |-> source, path |-> <<index, field_name>>, messages |-> messages]

\* ErrorStore.call_and_store for a getter that raised ValidationError(messages)
call_and_store(st, source, messages, field_name, index) ==
    [st EXCEPT !.errors = store_error(st.errors, index, field_name, messages),
               !.error_field_names = Append(st.error_field_names, field_name),
               !.reported = Append(st.reported,
                               Report(source, index, field_name, messages))]

\* log tags of the steps that are no hooks: a field's deserialization, the
\* error check of _do_load, the error handler
DESERIALIZE == "deserialize"
ERROR_CHECK == "error_check"
HANDLE_ERROR == "handle_error"

\* whether `partial` lets field `attr_name` be missing
partial_allows(partial, attr_name) ==
    IF partial.kind = "names" THEN attr_name \in partial.names ELSE partial.b

\* Unmarshaller.deserialize of one item: st.data collects the item's result
RECURSIVE deserialize_item(_, _, _, _, _, _, _)
deserialize_item(st, item, fields_dict, order, partial, index, i) ==
    IF i > Len(order) THEN st
    ELSE LET attr_name == order[i]
             field_obj == fields_dict[attr_name]
             res == deserialize(field_obj, item[attr_name])
             called == [st EXCEPT !.log = Append(st.log,
                          Entry(DESERIALIZE, FALSE, 0,
                                Single([n \in {attr_name} |-> item[attr_name]])))]
             next ==
                IF field_obj.dump_only THEN st
                ELSE IF attr_name \notin DOMAIN item
                THEN IF partial_allows(partial, attr_name) \/ ~field_obj.required
                     THEN st
                     ELSE call_and_store(st, "field", <<<<"required", 0>>>>,
                                         attr_name, index)
                ELSE IF res.ok
                THEN [called EXCEPT !.data =
                        [n \in DOMAIN st.data \cup {attr_name} |->
                            IF n = attr_name THEN res.value ELSE st.data[n]]]
                ELSE call_and_store(called, "field", <<<<"invalid", 0>>>>,
                                    attr_name, index)
         IN The({deserialize_item(s, item, fields_dict, order, partial, index, i + 1) :
                    s \in {next}})

RECURSIVE deserialize_many(_, _, _, _, _, _, _)
deserialize_many(st, items, fields_dict, partial, index_errors, out, i) ==
    IF i > Len(items) THEN [st EXCEPT !.data = List(out)]
    ELSE The({deserialize_many(one, items, fields_dict, partial, index_errors,
                               Append(out, one.data), i + 1) :
                one \in {deserialize_item([st EXCEPT !.data = <<>>], items[i],
                            fields_dict, NameSeq(DOMAIN fields_dict), partial,
                            IF index_errors THEN i - 1 ELSE NoIndex, 1)}})

\* mutant: the errors of the previous call are not reset
_unmarshal_keeps_errors(st, fields_dict, many, partial, index_errors) ==
    IF st.data.kind = "none" THEN st
    ELSE IF many
    THEN deserialize_many(st, st.data.items, fields_dict, partial,
                          index_errors, <<>>, 1)
    ELSE The({[one EXCEPT !.data = Single(one.data)] :
                one \in {deserialize_item([st EXCEPT !.data = <<>>],
                            st.data.items[1], fields_dict,
                            NameSeq(DOMAIN fields_dict), partial, NoIndex, 1)}})

\* self._unmarshal(data, fields, many, partial, index_errors): the errors of
\* the previous call are reset first
_unmarshal(st, fields_dict, many, partial, index_errors) ==
    LET st0 == [st EXCEPT !.errors = NoErrors, !.error_field_names = <<>>]
    IN IF st.data.kind = "none" THEN st0
       ELSE IF many
       THEN deserialize_many(st0, st.data.items, fields_dict, partial,
                             index_errors, <<>>, 1)
       ELSE The({[one EXCEPT !.data = Single(one.data)] :
                   one \in {deserialize_item([st0 EXCEPT !.data = <<>>],
                               st.data.items[1], fields_dict,
                               NameSeq(DOMAIN fields_dict), partial, NoIndex, 1)}})

(***************************************************************************)
(* Validators of the modelled schema class.                                *)
(*   field validator k      bound to "a" (k odd) or "b" (k even); rejects  *)
(*                          the value 2                                    *)
(*   batch schema validator rejects a result holding an item with a = 3    *)
(*   item schema validator  rejects an item with b = 3                     *)
(* A schema validator reports under _schema (k odd) or under "a" (k even). *)
(***************************************************************************)
validates_field_name(k) == IF k % 2 = 1 THEN "a" ELSE "b"

\* arguments are call modes: None, a boolean, or (partial) a set of names
ArgNone == [kind |-> "none", b |-> FALSE, names |-> {}]
ArgBool(b) == [kind |-> "bool", b |-> b, names |-> {}]
ArgNames(S) == [kind |-> "names", b |-> FALSE, names |-> S]

\* Python's bool(): a set is true when it is not empty
bool(arg) == IF arg.kind = "names" THEN arg.names # {} ELSE arg.b

\* the name `errors` of _do_load names either the unmarshaller's dict or a
\* dict of its own
Deref(st) == IF st.errors_ref = "unmarshal" THEN st.errors ELSE st.local

\* mutant: the failure is stored without the field's name
validate_field_under_schema(st, k, item, index) ==
    LET field_name == validates_field_name(k)
        called == [st EXCEPT !.log = Append(st.log,
                      Entry(VALIDATES, FALSE, k,
                            Single([n \in {field_name} |-> item[field_name]])))]
    IN IF field_name \notin DOMAIN item THEN st
       ELSE IF item[field_name] = 2
       THEN call_and_store(called, "validates", <<<<VALIDATES, k>>>>, SCHEMA, index)
       ELSE called

\* the body of the loops of _invoke_field_validators (lines 774-798) for one
\* item: the validator runs only when the item holds the field's key
validate_field(st, k, item, index) ==
    LET field_name == validates_field_name(k)
        called == [st EXCEPT !.log = Append(st.log,
                      Entry(VALIDATES, FALSE, k,
                            Single([n \in {field_name} |-> item[field_name]])))]
    IN IF field_name \notin DOMAIN item THEN st
       ELSE IF item[field_name] = 2
       THEN call_and_store(called, "validates", <<<<VALIDATES, k>>>>, field_name, index)
       ELSE called

\* mutant: the item's index is not handed to call_and_store
RECURSIVE validate_field_many_no_index(_, _, _, _)
validate_field_many_no_index(self, st, k, i) ==
    IF i > Len(st.data.items) THEN st
    ELSE The({validate_field_many_no_index(self, next, k, i + 1) :
                next \in {validate_field(st, k, st.data.items[i], NoIndex)}})

RECURSIVE validate_field_many(_, _, _, _)
validate_field_many(self, st, k, i) ==
    IF i > Len(st.data.items) THEN st
    ELSE The({validate_field_many(self, next, k, i + 1) :
                next \in {validate_field(st, k, st.data.items[i],
                            IF self.opts.index_errors THEN i - 1 ELSE NoIndex)}})

RECURSIVE invoke_field_validators_from(_, _, _, _, _)
invoke_field_validators_from(self, procs, st, many, i) ==
    IF i > Len(procs) THEN st
    ELSE LET k == procs[i]
             next ==
                IF validates_field_name(k) \notin DOMAIN self.fields THEN st
                ELSE IF many THEN validate_field_many(self, st, k, 1)
                ELSE validate_field(st, k, st.data.items[1], NoIndex)
         IN The({invoke_field_validators_from(self, procs, s, many, i + 1) :
                    s \in {next}})

_invoke_field_validators(self, st, many) ==
    invoke_field_validators_from(self, __processors__(self, VALIDATES, FALSE), st, many, 1)

validator_fails(pass_many, data) ==
    \E i \in 1..Len(data.items) :
        LET d == data.items[i]
        IN IF pass_many THEN "a" \in DOMAIN d /\ d["a"] = 3
           ELSE "b" \in DOMAIN d /\ d["b"] = 3

\* Unmarshaller.run_validator: a failure is stored under the names the
\* validator gave (or _schema), added to what is there, and raised again
\* with the whole error dict.  [st, raised, messages]
run_validator(st, pass_many, k, data, index) ==
    LET called == [st EXCEPT !.log =
                      Append(st.log, Entry(VALIDATES_SCHEMA, pass_many, k, data))]
        field_name == IF k % 2 = 1 THEN SCHEMA ELSE "a"
        message == <<IF pass_many THEN "schema_many" ELSE "schema", k>>
        stored == call_and_store(called,
                      IF pass_many THEN "schema_many" ELSE "schema",
                      <<message>>, field_name, index)
    IN IF validator_fails(pass_many, data)
       THEN [st |-> stored, raised |-> TRUE, messages |-> stored.errors]
       ELSE [st |-> called, raised |-> FALSE, messages |-> NoErrors]

\* lines 810-815 and 817-822: run one validator, merge what it raised into
\* the local errors dict of _invoke_validators.  acc = [st, errors]
catch_validator(acc, pass_many, k, data, index) ==
    The({[st |-> r.st,
          errors |-> IF r.raised THEN dict_update(acc.errors, r.messages)
                     ELSE acc.errors] :
            r \in {run_validator(acc.st, pass_many, k, data, index)}})

RECURSIVE run_validator_items(_, _, _)
run_validator_items(acc, k, i) ==
    IF i > Len(acc.st.data.items) THEN acc
    ELSE The({run_validator_items(next, k, i + 1) :
                next \in {catch_validator(acc, FALSE, k,
                                          Single(acc.st.data.items[i]), i - 1)}})

\* mutant: the loop ends at the first validator that failed
RECURSIVE invoke_validators_until_failure(_, _, _, _, _)
invoke_validators_until_failure(procs, pass_many, acc, many, i) ==
    IF i > Len(procs) \/ DOMAIN acc.errors # {} THEN acc
    ELSE LET k == procs[i]
             next == IF many /\ ~pass_many THEN run_validator_items(acc, k, 1)
                     ELSE catch_validator(acc, pass_many, k, acc.st.data, NoIndex)
         IN The({invoke_validators_until_failure(procs, pass_many, a, many, i + 1) :
                    a \in {next}})

RECURSIVE invoke_validators_from(_, _, _, _, _)
invoke_validators_from(procs, pass_many, acc, many, i) ==
    IF i > Len(procs) THEN acc
    ELSE LET k == procs[i]
             next == IF many /\ ~pass_many THEN run_validator_items(acc, k, 1)
                     ELSE catch_validator(acc, pass_many, k, acc.st.data, NoIndex)
         IN The({invoke_validators_from(procs, pass_many, a, many, i + 1) :
                    a \in {next}})

\* [st, raised, messages]: raises ValidationError(errors) when errors is not empty
_invoke_validators(self, pass_many, st, many) ==
    The({[st |-> acc.st, raised |-> DOMAIN acc.errors # {}, messages |-> acc.errors] :
            acc \in {invoke_validators_from(
                        __processors__(self, VALIDATES_SCHEMA, pass_many),
                        pass_many, [st |-> st, errors |-> NoErrors], many, 1)}})

(***************************************************************************)
(* The load pipeline: BaseSchema._do_load.                                 *)
(***************************************************************************)
\* the state a call threads through its steps: the data, the hooks invoked
\* so far, the (un)marshaller's error dict, the failures reported so far,
\* and what the local name `errors` is bound to
Start(data, errors) ==
    [data |-> data, log |-> <<>>, errors |-> errors, reported |-> <<>>,
     error_field_names |-> <<>>, local |-> NoErrors, errors_ref |-> "local"]

\* line 592 (and 469)
many_of(self, many) == IF many.kind = "none" THEN self.many ELSE bool(many)

\* mutant: the instance-level partial is or-ed into an explicit argument
partial_of_instance_first(self, partial) ==
    ArgBool(self.partial \/ bool(partial))

\* mutant: an explicit partial argument is passed on as it is
partial_of_as_given(self, partial) ==
    IF partial.kind = "none" THEN ArgBool(self.partial) ELSE partial

\* line 593
partial_of(self, partial) ==
    ArgBool(IF partial.kind = "none" THEN self.partial ELSE bool(partial))

\* mutant: line 611 is left out, errors stays the dict of line 609
field_errors_own_dict(self, st, many) ==
    _invoke_field_validators(self, st, many)

\* lines 610-611: errors = self._unmarshal.errors
field_errors(self, st, many) ==
    [_invoke_field_validators(self, st, many) EXCEPT !.errors_ref = "unmarshal"]

\* errors.update(err.messages), on whichever dict `errors` names
errors_update(st, messages) ==
    IF st.errors_ref = "unmarshal"
    THEN [st EXCEPT !.errors = dict_update(st.errors, messages)]
    ELSE [st EXCEPT !.local = dict_update(st.local, messages)]

\* lines 613-616 and 617-620
schema_errors(self, pass_many, st, many) ==
    The({IF r.raised THEN errors_update(r.st, r.messages) ELSE r.st :
            r \in {_invoke_validators(self, pass_many, st, many)}})

\* lines 621-631: the error handler sees the errors and the original data
handle_errors(st, data) ==
    IF DOMAIN Deref(st) # {}
    THEN [st EXCEPT !.log = Append(st.log, Entry(HANDLE_ERROR, FALSE, 0, data))]
    ELSE st

\* mutant: only the class-level strict option is consulted
load_raises_opts_strict(self, errors) == DOMAIN errors # {} /\ self.opts.strict

\* lines 632-633
load_raises(self, errors) == DOMAIN errors # {} /\ self.strict

\* mutant: the post-load hooks do not depend on the errors
load_postprocesses_always(errors, postprocess) == postprocess

\* line 635
load_postprocesses(errors, postprocess) == DOMAIN errors = {} /\ postprocess

\* no exception object
NoExc == [messages |-> NoErrors, field_names |-> <<>>, fields |-> <<>>, data |-> None]

Outcome(outcome, st, data, errors) ==
    [outcome |-> outcome, data |-> data, errors |-> errors, store |-> st.errors,
     log |-> st.log, reported |-> st.reported, exc |-> NoExc]

\* the field contracts of the names the unmarshaller recorded
error_fields(self, st) ==
    LET known == SelectSeq(st.error_field_names, LAMBDA n : n \in DOMAIN self.fields)
    IN [i \in 1..Len(known) |-> self.fields[known[i]]]

\* mutant: the exception is given the deserialized result as its data
load_error_result_data(self, st, errors, data) ==
    [messages |-> errors, field_names |-> st.error_field_names,
     fields |-> error_fields(self, st), data |-> st.data]

\* lines 625-630: exc = ValidationError(errors, field_names=..., fields=..., data=data)
load_error(self, st, errors, data) ==
    [messages |-> errors, field_names |-> st.error_field_names,
     fields |-> error_fields(self, st), data |-> data]

\* mutant: the batch schema validators run before the field validators
load_validated_schema_first(self, data, many, partial) ==
    The({schema_errors(self, FALSE, st4, many) :
      st4 \in {field_errors(self, st3, many) :
        st3 \in {schema_errors(self, TRUE, st2, many) :
          st2 \in {_unmarshal(st1, self.fields, many, partial, self.opts.index_errors) :
            st1 \in {_invoke_load_processors(self, PRE_LOAD,
                        Start(data, self.unmarshal_errors), many)}}}}})

\* lines 595-620: up to the last schema validator
load_validated(self, data, many, partial) ==
    The({schema_errors(self, FALSE, st4, many) :
      st4 \in {schema_errors(self, TRUE, st3, many) :
        st3 \in {field_errors(self, st2, many) :
          st2 \in {_unmarshal(st1, self.fields, many, partial, self.opts.index_errors) :
            st1 \in {_invoke_load_processors(self, PRE_LOAD,
                        Start(data, self.unmarshal_errors), many)}}}}})

\* lines 621-638: the error check, the post-load hooks, the return
load_finish(self, st5, data, many, postprocess) ==
    LET errors == Deref(st5)
        checked == [st5 EXCEPT !.log = Append(st5.log,
                       Entry(ERROR_CHECK, FALSE, 0, None))]
        st6 == handle_errors(checked, data)
    IN IF load_raises(self, errors)
       THEN [Outcome("raised", st6, None, errors) EXCEPT
                !.exc = load_error(self, st6, errors, data)]
       ELSE IF load_postprocesses(errors, postprocess)
       THEN The({Outcome("returned", st7, st7.data, errors) :
                   st7 \in {_invoke_load_processors(self, POST_LOAD, st6, many)}})
       ELSE Outcome("returned", st6, st6.data, errors)

_do_load(self, data, many_arg, partial_arg, postprocess) ==
    The({load_finish(self, st5, data, many_of(self, many_arg), postprocess) :
            st5 \in {load_validated(self, data, many_of(self, many_arg),
                                    partial_of(self, partial_arg))}})

(***************************************************************************)
(* The dump pipeline: BaseSchema.dump.                                     *)
(***************************************************************************)
\* Marshaller.serialize of one object: a failure is stored under the
\* field's key, sibling fields are still serialized
RECURSIVE serialize_item(_, _, _, _, _, _)
serialize_item(st, obj, fields_dict, order, index, i) ==
    IF i > Len(order) THEN st
    ELSE LET attr_name == order[i]
             field_obj == fields_dict[attr_name]
             res == serialize(field_obj, obj[attr_name])
             next ==
                IF field_obj.load_only \/ attr_name \notin DOMAIN obj THEN st
                ELSE IF res.ok
                THEN [st EXCEPT !.data =
                        [n \in DOMAIN st.data \cup {attr_name} |->
                            IF n = attr_name THEN res.value ELSE st.data[n]]]
                ELSE call_and_store(st, "field", <<<<"invalid", 0>>>>, attr_name, index)
         IN The({serialize_item(s, obj, fields_dict, order, index, i + 1) :
                    s \in {next}})

RECURSIVE serialize_many(_, _, _, _, _, _)
serialize_many(st, items, fields_dict, index_errors, out, i) ==
    IF i > Len(items) THEN [st EXCEPT !.data = List(out)]
    ELSE The({serialize_many(one, items, fields_dict, index_errors,
                             Append(out, one.data), i + 1) :
                one \in {serialize_item([st EXCEPT !.data = <<>>], items[i],
                            fields_dict, NameSeq(DOMAIN fields_dict),
                            IF index_errors THEN i - 1 ELSE NoIndex, 1)}})

\* self._marshal(obj, fields, many, index_errors): resets the errors, then
\* serializes; the caller sees ValidationError exactly when errors is not empty
_marshal(st, fields_dict, many, index_errors) ==
    LET st0 == [st EXCEPT !.errors = NoErrors, !.error_field_names = <<>>]
    IN IF st.data.kind = "none" THEN st0
       ELSE IF many
       THEN serialize_many(st0, st.data.items, fields_dict, index_errors, <<>>, 1)
       ELSE The({[one EXCEPT !.data = Single(one.data)] :
                   one \in {serialize_item([st0 EXCEPT !.data = <<>>],
                               st.data.items[1], fields_dict,
                               NameSeq(DOMAIN fields_dict), NoIndex, 1)}})

\* lines 494-500: errors is the marshaller's dict after a ValidationError,
\* a new empty dict otherwise
dump_errors(st) == IF DOMAIN st.errors # {} THEN st.errors ELSE NoErrors

\* mutant: the error is raised again whatever strict is
dump_raises_always(self, st) == DOMAIN st.errors # {}

\* lines 497-498
dump_raises(self, st) == DOMAIN st.errors # {} /\ self.strict

\* mutant: the original object is handed back in place of the marshalled data
_postprocess_returns_obj(st, obj) ==
    IF DOMAIN st.errors # {}
    THEN [st EXCEPT !.log = Append(st.log, Entry(HANDLE_ERROR, FALSE, 0, obj)),
                    !.data = obj]
    ELSE [st EXCEPT !.data = obj]

\* mutant: the error handler is never called
_postprocess_without_handler(st, obj) == st

\* lines 367-371: the error handler is called when the marshaller has errors
_postprocess(st, obj) ==
    IF DOMAIN st.errors # {}
    THEN [st EXCEPT !.log = Append(st.log, Entry(HANDLE_ERROR, FALSE, 0, obj))]
    ELSE st

\* [fields, result]: the Field Set the call leaves bound, and its outcome
\* lines 483-505: marshal with the Field Set `fields_dict`, then post-process
dump_marshal(self, st1, fields_dict, obj, many) ==
    The({IF dump_raises(self, st2)
         THEN [fields |-> fields_dict,
               result |-> Outcome("raised", st2, None, st2.errors)]
         ELSE The({[fields |-> fields_dict,
                    result |-> Outcome("returned", st4, st4.data, dump_errors(st2))] :
                     st4 \in {_invoke_dump_processors(self, POST_DUMP,
                                 _postprocess(st2, obj), many)}}) :
            st2 \in {_marshal(st1, fields_dict, many, self.opts.index_errors)}})

\* mutant: the Field Set is bound again from the caller's object
dump_update_from_obj(self, st1, obj, many, update_fields) ==
    LET uf == IF update_fields THEN _update_fields(self, obj, many)
              ELSE [ok |-> TRUE, fields |-> self.fields, key |-> ""]
    IN IF ~uf.ok
       THEN [fields |-> self.fields,
             result |-> Outcome("lookup_error", st1, None, NoErrors)]
       ELSE dump_marshal(self, st1, uf.fields, obj, many)

\* lines 478-481: the pre-dump hooks, then the Field Set is bound again from
\* what they returned
dump_update(self, st1, obj, many, update_fields) ==
    LET uf == IF update_fields THEN _update_fields(self, st1.data, many)
              ELSE [ok |-> TRUE, fields |-> self.fields, key |-> ""]
    IN IF ~uf.ok
       THEN [fields |-> self.fields,
             result |-> Outcome("lookup_error", st1, None, NoErrors)]
       ELSE dump_marshal(self, st1, uf.fields, obj, many)

dump(self, obj, many_arg, update_fields) ==
    The({dump_update(self, st1, obj, many_of(self, many_arg), update_fields) :
            st1 \in {_invoke_dump_processors(self, PRE_DUMP,
                        Start(obj, self.marshal_errors), many_of(self, many_arg))}})

(***************************************************************************)
(* Construction: SchemaOpts.__init__ and BaseSchema.__init__.              *)
(***************************************************************************)
SchemaOpts(fields, additional, exclude, index_errors) ==
    [fields |-> fields, additional |-> additional, exclude |-> exclude,
     strict |-> FALSE, index_errors |-> index_errors]

\* BaseSchema.__init__, which ends by binding the Field Set with no object
__init__(opts, only, exclude, strict, many, partial, hooks) ==
    LET self == [opts |-> opts, only |-> only, exclude |-> exclude,
                 strict |-> strict \/ opts.strict, many |-> many,
                 partial |-> partial, hooks |-> hooks,
                 declared_fields |-> _declared_fields, fields |-> <<>>,
                 unmarshal_errors |-> NoErrors, marshal_errors |-> NoErrors]
    IN [self EXCEPT !.fields = _update_fields(self, None, many).fields]

(***************************************************************************)
(* Inputs.                                                                 *)
(***************************************************************************)
SeqsUpTo(S, n) == UNION {[1..m -> S] : m \in 0..n}

\* wire items: valid; "a" not an integer and "b" missing; values the field
\* validator of "a" and the item schema validator reject; values the batch
\* schema validator and the field validator of "b" reject
LoadItems == {Dict(11, 11, 0), Dict(17, 0, 0), Dict(12, 13, 0), Dict(13, 12, 0)}

LoadData ==
    {Single(d) : d \in LoadItems} \cup {List(s) : s \in SeqsUpTo(LoadItems, MaxItems)}

\* objects: "a" is a str; with an extra int attribute "c"; with a str "c"
DumpItems == {Dict(7, 1, 0), Dict(1, 2, 1), Dict(2, 1, 7)}

DumpData ==
    {Single(d) : d \in DumpItems}
        \cup {List(s) : s \in SeqsUpTo(DumpItems, MaxItems)}
        \cup {Cursor(s) : s \in SeqsUpTo(DumpItems, 1)}

ManyArgs == {ArgNone, ArgBool(TRUE), ArgBool(FALSE)}

PartialArgs == ManyArgs \cup {ArgNames({}), ArgNames({"a"})}

\* class Meta options and constructor arguments of the modelled schemas;
\* SchemaOpts refuses fields together with additional
FieldOption(fields, additional, opts_exclude, only, exclude) ==
    [fields |-> fields, additional |-> additional, opts_exclude |-> opts_exclude,
     only |-> only, exclude |-> exclude]

FieldOptions ==
    {FieldOption({}, {}, {}, {}, {}),
     FieldOption({}, {}, {}, {}, {"b"}),
     FieldOption({}, {}, {"b"}, {"a", "b"}, {}),
     FieldOption({}, {"c"}, {}, {}, {"a"}),
     FieldOption({"a", "c"}, {}, {}, {"a", "b"}, {})}

NoCall ==
    [op |-> "none", input |-> None, many |-> FALSE, partial |-> ArgNone,
     update_fields |-> FALSE,
     result |-> [outcome |-> "none", data |-> None, errors |-> NoErrors,
                 store |-> NoErrors, log |-> <<>>, reported |-> <<>>,
                 exc |-> NoExc],
     history |-> <<>>]

Init ==
    /\ \E o \in FieldOptions, index_errors, strict, many, partial \in BOOLEAN,
          hooks \in {0, NumHooks} :
          schema = __init__(SchemaOpts(o.fields, o.additional, o.opts_exclude,
                                       index_errors),
                            o.only, o.exclude, strict, many, partial, hooks)
    /\ call = NoCall

(***************************************************************************)
(* The caller-facing operations.                                           *)
(***************************************************************************)
\* what is remembered of the calls made before the last one: the operation,
\* whether it ended with errors, and the Field Set it left bound
History ==
    IF call.op = "none" THEN call.history
    ELSE Append(call.history,
                [op |-> call.op, failed |-> DOMAIN call.result.errors # {},
                 fields |-> schema.fields])

\* mutant: a load binds the declared fields as the Field Set
CallLoad_binds_declared_fields(data, many, partial) ==
    /\ IsCollection(data) = many_of(schema, many)
    /\ \E r \in {_do_load(schema, data, many, partial, TRUE)} :
          /\ schema' = [schema EXCEPT !.fields = schema.declared_fields,
                                      !.unmarshal_errors = r.store]
          /\ call' = [op |-> "load", input |-> data, many |-> many_of(schema, many),
                      partial |-> partial, update_fields |-> FALSE, result |-> r,
                      history |-> History]

CallLoad(data, many, partial) ==
    /\ IsCollection(data) = many_of(schema, many)
    /\ \E r \in {_do_load(schema, data, many, partial, TRUE)} :
          /\ schema' = [schema EXCEPT !.unmarshal_errors = r.store]
          /\ call' = [op |-> "load", input |-> data, many |-> many_of(schema, many),
                      partial |-> partial, update_fields |-> FALSE, result |-> r,
                      history |-> History]

\* mutant: validate lets _do_load run the post-load hooks
CallValidate_postprocesses(data, many) ==
    /\ IsCollection(data) = many_of(schema, many)
    /\ \E r \in {_do_load(schema, data, many, ArgNone, TRUE)} :
          /\ schema' = [schema EXCEPT !.unmarshal_errors = r.store]
          /\ call' = [op |-> "validate", input |-> data, many |-> many_of(schema, many),
                      partial |-> ArgNone, update_fields |-> FALSE, result |-> r,
                      history |-> History]

CallValidate(data, many) ==
    /\ IsCollection(data) = many_of(schema, many)
    /\ \E r \in {_do_load(schema, data, many, ArgNone, FALSE)} :
          /\ schema' = [schema EXCEPT !.unmarshal_errors = r.store]
          /\ call' = [op |-> "validate", input |-> data, many |-> many_of(schema, many),
                      partial |-> ArgNone, update_fields |-> FALSE, result |-> r,
                      history |-> History]

CallDump(obj, many, update_fields) ==
    /\ IsCollection(obj) = many_of(schema, many)
    /\ \E r \in {dump(schema, obj, many, update_fields)} :
          /\ schema' = [schema EXCEPT !.fields = r.fields,
                                      !.marshal_errors = r.result.store]
          /\ call' = [op |-> "dump", input |-> obj, many |-> many_of(schema, many),
                      partial |-> ArgNone, update_fields |-> update_fields,
                      result |-> r.result, history |-> History]

\* one call on a new instance
Load(data, many, partial) == call.op = "none" /\ CallLoad(data, many, partial)

Validate(data, many) == call.op = "none" /\ CallValidate(data, many)

Dump(obj, many, update_fields) == call.op = "none" /\ CallDump(obj, many, update_fields)

Next ==
    \/ \E data \in LoadData, many \in ManyArgs, partial \in PartialArgs :
          Load(data, many, partial)
    \/ \E data \in LoadData, many \in ManyArgs : Validate(data, many)
    \/ \E obj \in DumpData, many \in ManyArgs, update_fields \in BOOLEAN :
          Dump(obj, many, update_fields)

Spec == Init /\ [][Next]_vars

(***************************************************************************)
(* Sequences of calls on one instance: up to MaxCalls calls, one after the *)
(* other (no call re-enters), over fewer schemas and inputs.               *)
(***************************************************************************)
MaxCalls == 3

SeqFieldOptions ==
    {FieldOption({}, {}, {}, {}, {}), FieldOption({}, {"c"}, {}, {}, {"a"})}

SeqLoadData ==
    {Single(Dict(11, 11, 0)), Single(Dict(17, 0, 0)), Single(Dict(12, 13, 0)),
     List(<<Dict(11, 11, 0), Dict(17, 0, 0)>>), List(<<Dict(11, 11, 0)>>),
     Single(Dict(11, 11, 11))}

SeqDumpData ==
    {Single(Dict(7, 1, 0)), Single(Dict(1, 2, 1)), Single(Dict(2, 1, 7)),
     List(<<Dict(1, 2, 1), Dict(7, 1, 0)>>), List(<<Dict(2, 1, 7)>>),
     Cursor(<<>>)}

SeqInit ==
    /\ \E o \in SeqFieldOptions, strict \in BOOLEAN, hooks \in {0, NumHooks} :
          schema = __init__(SchemaOpts(o.fields, o.additional, o.opts_exclude, TRUE),
                            o.only, o.exclude, strict, FALSE, FALSE, hooks)
    /\ call = NoCall

MoreCalls == Len(History) < MaxCalls

SeqLoad(data, many) == MoreCalls /\ CallLoad(data, many, ArgNone)

SeqValidate(data, many) == MoreCalls /\ CallValidate(data, many)

SeqDump(obj, many, update_fields) == MoreCalls /\ CallDump(obj, many, update_fields)

SeqNext ==
    \/ \E data \in SeqLoadData, many \in {ArgNone, ArgBool(TRUE)} : SeqLoad(data, many)
    \/ \E data \in SeqLoadData, many \in {ArgNone, ArgBool(TRUE)} : SeqValidate(data, many)
    \/ \E obj \in SeqDumpData, many \in {ArgNone, ArgBool(TRUE)}, update_fields \in BOOLEAN :
          SeqDump(obj, many, update_fields)

SeqSpec == SeqInit /\ [][SeqNext]_vars

(***************************************************************************)
(* Binding the Field Set alone: _update_fields applied to an instance and  *)
(* a target object (specification FieldSpec).                              *)
(***************************************************************************)
FilterOptions ==
    FieldOptions
        \cup {FieldOption({}, {"c"}, {}, {}, {}),
              FieldOption({"c"}, {}, {}, {}, {}),
              FieldOption({}, {}, {}, {"b", "c"}, {})}

\* target objects: none; dicts without keys, without "c", with an int and
\* with a str "c"; lists and cursor-like collections of them, empty ones too
FilterData ==
    {None, Single(Dict(0, 0, 0)), Single(Dict(1, 1, 0)), Single(Dict(1, 2, 1)),
     Single(Dict(2, 1, 7)), List(<<>>), List(<<Dict(0, 0, 0)>>),
     List(<<Dict(1, 1, 0), Dict(1, 2, 1)>>), List(<<Dict(1, 2, 1), Dict(7, 1, 0)>>),
     List(<<Dict(2, 1, 7), Dict(1, 2, 1)>>), Cursor(<<>>), Cursor(<<Dict(2, 1, 7)>>)}

FieldInit ==
    /\ \E o \in FilterOptions, strict \in BOOLEAN :
          schema = __init__(SchemaOpts(o.fields, o.additional, o.opts_exclude, TRUE),
                            o.only, o.exclude, strict, FALSE, FALSE, 0)
    /\ call = NoCall

\* self._update_fields(obj, many): lines 640-666
UpdateFields(obj, many) ==
    /\ call.op = "none"
    /\ obj = None \/ IsCollection(obj) = many
    /\ \E r \in {_update_fields(schema, obj, many)} :
          /\ schema' = [schema EXCEPT !.fields = r.fields]
          /\ call' = [NoCall EXCEPT
                         !.op = "_update_fields", !.input = obj, !.many = many,
                         !.result.outcome = IF r.ok THEN "returned" ELSE "lookup_error",
                         !.result.exc.field_names = IF r.ok THEN <<>> ELSE <<r.key>>]

FieldNext == \E obj \in FilterData, many \in BOOLEAN : UpdateFields(obj, many)

FieldSpec == FieldInit /\ [][FieldNext]_vars

(***************************************************************************)
(* Running the hooks of one key alone: _invoke_processors applied to an    *)
(* instance with 0..MaxHooks hooks under the key (specification HookSpec). *)
(***************************************************************************)
MaxHooks == 3

HookTags == {PRE_DUMP, POST_DUMP, PRE_LOAD, POST_LOAD}

HookItems == {Dict(1, 1, 0), Dict(2, 3, 7)}

HookData ==
    {Single(d) : d \in HookItems} \cup {List(s) : s \in SeqsUpTo(HookItems, MaxItems)}

HookInit ==
    /\ \E hooks \in 0..MaxHooks :
          schema = __init__(SchemaOpts({}, {}, {}, TRUE), {}, {}, FALSE, FALSE, FALSE,
                            hooks)
    /\ call = NoCall

\* self._invoke_processors(tag_name, pass_many, data, many): lines 827-851
InvokeProcessors(tag_name, pass_many, data, many) ==
    /\ call.op = "none"
    /\ IsCollection(data) = many
    /\ \E r \in {_invoke_processors(schema, tag_name, pass_many,
                                    Start(data, NoErrors), many)} :
          call' = [NoCall EXCEPT
                      !.op = "_invoke_processors", !.input = data, !.many = many,
                      !.result.outcome = "returned", !.result.data = r.data,
                      !.result.log = r.log]
    /\ UNCHANGED schema

HookNext ==
    \E tag_name \in HookTags, pass_many \in BOOLEAN, data \in HookData,
       many \in BOOLEAN :
          InvokeProcessors(tag_name, pass_many, data, many)

HookSpec == HookInit /\ [][HookNext]_vars

(***************************************************************************)
(* Class definition: SchemaMeta.__new__ and SchemaOpts.__init__.  Under    *)
(* this specification `schema` is the most derived schema class defined so *)
(* far and `call` the last class statement executed.  A class is           *)
(*   [Meta, opts, _declared_fields, mro]                                   *)
(* where mro lists the _declared_fields of the class and of its bases,     *)
(* the class first.                                                        *)
(***************************************************************************)
MaxBases == 3

\* a class attribute that is not a field
NotAField == FieldObj("object", FALSE)

\* utils.is_instance_or_subclass(field_value, field_class)
is_field(field_value) == field_value.type # "object"

\* the (name, value) pairs of the attributes that are fields
_get_fields(attrs) ==
    LET order == NameSeq(DOMAIN attrs)
        items == [i \in 1..Len(order) |-> <<order[i], attrs[order[i]]>>]
    IN SelectSeq(items, LAMBDA pair : is_field(pair[2]))

\* the pairs of mro[i], ..., mro[2], the most basic class first
RECURSIVE get_fields_from(_, _)
get_fields_from(mro, i) ==
    IF i < 2 THEN <<>>
    ELSE _get_fields(mro[i]) \o get_fields_from(mro, i - 1)

\* the class itself (mro[1]) is left out: for base in mro[:0:-1]
_get_fields_by_mro(mro) == get_fields_from(mro, Len(mro))

\* dict(pairs): the last pair of a name wins
dict(pairs) ==
    [n \in {pairs[i][1] : i \in DOMAIN pairs} |->
        LET last == CHOOSE i \in DOMAIN pairs :
                        /\ pairs[i][1] = n
                        /\ \A j \in DOMAIN pairs : pairs[j][1] = n => j <= i
        IN pairs[last][2]]

\* mutant: the inherited pairs come after the class's own
get_declared_fields_inherited_last(cls_fields, inherited_fields) ==
    dict(cls_fields \o inherited_fields)

get_declared_fields(cls_fields, inherited_fields) ==
    dict(inherited_fields \o cls_fields)

\* a class Meta; NoMeta is a class body without one
Meta(fields, additional, include) ==
    [given |-> TRUE, fields |-> fields, additional |-> additional,
     include |-> include]

NoMeta == [given |-> FALSE, fields |-> {}, additional |-> {}, include |-> <<>>]

\* mutant: fields and additional are never checked against each other
SchemaOpts_raises_never(meta) == FALSE

\* lines 187-189: raise ValueError("Cannot set both `fields` and `additional` ...")
SchemaOpts_raises(meta) == meta.fields # {} /\ meta.additional # {}

\* SchemaMeta.__new__ for a class body `attrs` with class Meta `meta` and
\* the one base class `base`: [raised, klass]
__new__(base, attrs, meta) ==
    LET cls_fields == _get_fields(attrs)
        mro == <<attrs>> \o base.mro
        inherited_fields == _get_fields_by_mro(mro)
        klass_Meta == IF meta.given THEN meta ELSE base.Meta
        opts == SchemaOpts(klass_Meta.fields, klass_Meta.additional, {}, TRUE)
        declared == get_declared_fields(
                        cls_fields \o _get_fields(klass_Meta.include),
                        inherited_fields)
    IN [raised |-> SchemaOpts_raises(klass_Meta),
        klass |-> [Meta |-> klass_Meta, opts |-> opts,
                   _declared_fields |-> declared,
                   mro |-> <<declared>> \o base.mro]]

\* class BaseSchema: no fields, the default options
BaseSchema ==
    [Meta |-> Meta({}, {}, <<>>), opts |-> SchemaOpts({}, {}, {}, TRUE),
     _declared_fields |-> <<>>, mro |-> << <<>> >>]

ClassAttrs ==
    {<<>>,
     [n \in {"a"} |-> FieldObj("Integer", TRUE)],
     [n \in {"a"} |-> FieldObj("String", FALSE)],
     [n \in {"a"} |-> NotAField],
     [n \in {"b"} |-> FieldObj("String", FALSE)],
     [n \in {"a", "b"} |-> FieldObj("Integer", TRUE)]}

ClassMetas ==
    {NoMeta,
     Meta({}, {}, <<>>),
     Meta({"a"}, {}, <<>>),
     Meta({}, {"c"}, [n \in {"a"} |-> FieldObj("Integer", FALSE)]),
     Meta({"a"}, {"c"}, <<>>)}

ClassInit ==
    /\ schema = BaseSchema
    /\ call = [op |-> "none", attrs |-> <<>>, Meta |-> NoMeta,
               base |-> BaseSchema, raised |-> FALSE]

\* a class statement with base class `schema`; when it raises, no class
\* comes into being
DefineClass(attrs, meta) ==
    /\ Len(schema.mro) <= MaxBases
    /\ \E r \in {__new__(schema, attrs, meta)} :
          /\ schema' = IF r.raised THEN schema ELSE r.klass
          /\ call' = [op |-> "class", attrs |-> attrs, Meta |-> meta,
                      base |-> schema, raised |-> r.raised]

ClassNext == \E attrs \in ClassAttrs, meta \in ClassMetas : DefineClass(attrs, meta)

ClassSpec == ClassInit /\ [][ClassNext]_vars

(***************************************************************************)
(* Properties of a finished call.  `call.result` holds what the call gave  *)
(* back, the hooks and validators it invoked (log) and every failure that  *)
(* was reported to the error store during it (reported).                   *)
(***************************************************************************)
Called(ops) == call.op \in ops /\ call.result.outcome \in {"returned", "raised"}

Log == call.result.log

Reported == call.result.reported

Errors == call.result.errors

RECURSIVE Concat(_)
Concat(reports) ==
    IF reports = <<>> THEN <<>>
    ELSE Head(reports).messages \o Concat(Tail(reports))

\* every reported failure, key by key, in the order of the reports
Merged(reports) ==
    [p \in {reports[i].path : i \in DOMAIN reports} |->
        Concat(SelectSeq(reports, LAMBDA e : e.path = p))]

Sources(reports) == {reports[i].source : i \in DOMAIN reports}

\* the positions of the log where a hook of `tag` was invoked
Invoked(tag, pass_many) ==
    {i \in DOMAIN Log : Log[i].tag = tag /\ Log[i].pass_many = pass_many}

\* every invocation of the one kind comes before every invocation of the other
Before(tag, first_many) ==
    \A i \in Invoked(tag, first_many), j \in Invoked(tag, ~first_many) : i < j

\* both kinds of hook of `tag` were invoked in the call
BothInvoked(tag) == Invoked(tag, TRUE) # {} /\ Invoked(tag, FALSE) # {}

\* the mark the batch hooks 1..n leave on an item that has none
RECURSIVE BatchMark(_)
BatchMark(n) ==
    IF n = 0 THEN 0
    ELSE IF n % 2 = 0 THEN 10 * BatchMark(n - 1) + n ELSE BatchMark(n - 1)

\* C1: the error map of a load or validate call holds, under every key,
\* every message reported under that key by the field conversions, the
\* field validators, the batch schema validators and the item schema
\* validators, in the order reported: no source overwrites another.
C1_ErrorsMergedAdditively ==
    Called({"load", "validate"}) => Errors = Merged(Reported)

\* a load in which one key received messages from two different sources
C1_Witness ==
    /\ Called({"load"})
    /\ \E i, j \in DOMAIN Reported :
          /\ Reported[i].path = Reported[j].path
          /\ Reported[i].source # Reported[j].source
    /\ Cardinality(Sources(Reported)) >= 3

\* C2: under strict a call that returns has an empty error map, and a call
\* in which any conversion or validator failure was reported raises.
C2_StrictNeverReturnsErrors ==
    call.op # "none" /\ schema.strict
        => /\ call.result.outcome = "returned" => DOMAIN Errors = {}
           /\ Reported # <<>> => call.result.outcome = "raised"

\* a strict load that raised on a reported failure
C2_Witness ==
    /\ call.op = "load" /\ schema.strict
    /\ Reported # <<>>
    /\ call.result.outcome = "raised"

\* C3: without strict no conversion or validator failure makes the call
\* raise, and the returned error map is empty exactly when none was reported.
C3_NonStrictReturnsPair ==
    call.op # "none" /\ ~schema.strict
        => /\ call.result.outcome # "raised"
           /\ call.result.outcome = "lookup_error" => Reported = <<>>
           /\ call.result.outcome = "returned"
                => (DOMAIN Errors = {} <=> Reported = <<>>)

\* a non-strict dump that returned a non-empty error map
C3_Witness ==
    /\ call.op = "dump" /\ ~schema.strict
    /\ call.result.outcome = "returned"
    /\ DOMAIN Errors # {}
    /\ Reported # <<>>

\* C4: in a load every batch pre-load hook has finished before any
\* non-batch pre-load hook starts, and the first non-batch hook is handed
\* the items as all the batch hooks left them.
C4_PreLoadBatchFirst ==
    Called({"load", "validate"})
        => /\ Before(PRE_LOAD, TRUE)
           /\ \A i \in Invoked(PRE_LOAD, FALSE) :
                 Log[i].k = 1 /\ BatchMark(schema.hooks) > 0
                    => /\ "t" \in DOMAIN Log[i].arg.items[1]
                       /\ Log[i].arg.items[1]["t"] = BatchMark(schema.hooks)

\* a load that invoked pre-load hooks of both kinds
C4_Witness == Called({"load"}) /\ BothInvoked(PRE_LOAD)

\* C5: in a dump every non-batch pre-dump hook has finished before any
\* batch pre-dump hook starts.
C5_PreDumpItemsFirst == call.op = "dump" => Before(PRE_DUMP, FALSE)

\* a dump that invoked pre-dump hooks of both kinds
C5_Witness == call.op = "dump" /\ BothInvoked(PRE_DUMP)

\* C6 as stated: in a dump the batch post-dump hooks run first, then the
\* non-batch post-dump hooks.
C6_PostDumpBatchFirst == call.op = "dump" => Before(POST_DUMP, TRUE)

\* C6 amended: in a dump every non-batch post-dump hook has finished before
\* any batch post-dump hook starts.
C6_PostDumpItemsFirst == call.op = "dump" => Before(POST_DUMP, FALSE)

\* a dump that invoked post-dump hooks of both kinds
C6_Witness == Called({"dump"}) /\ BothInvoked(POST_DUMP)

\* C7: a load invokes its post-load hooks exactly when the error map is
\* empty once all validators have run; with errors and without strict it
\* returns without any of them invoked; validate never invokes them.
C7_PostLoadOnlyWithoutErrors ==
    /\ Called({"load"}) /\ schema.hooks > 0
          => (Invoked(POST_LOAD, TRUE) \cup Invoked(POST_LOAD, FALSE) # {}
                <=> DOMAIN Errors = {})
    /\ Called({"load"}) /\ DOMAIN Errors = {}
          => \A k \in 1..schema.hooks, pass_many \in BOOLEAN :
                pass_many \/ call.input.items # <<>>
                   => \E i \in Invoked(POST_LOAD, pass_many) : Log[i].k = k
    /\ call.op = "validate"
          => Invoked(POST_LOAD, TRUE) \cup Invoked(POST_LOAD, FALSE) = {}

\* a non-strict load with hooks that returned errors and skipped post-load
C7_Witness ==
    /\ call.op = "load" /\ schema.hooks > 0
    /\ call.result.outcome = "returned"
    /\ DOMAIN Errors # {}
    /\ Invoked(POST_LOAD, TRUE) \cup Invoked(POST_LOAD, FALSE) = {}

\* C8: when a load's post-load hooks run, every batch post-load hook has
\* finished before any non-batch post-load hook starts.
C8_PostLoadBatchFirst == call.op = "load" => Before(POST_LOAD, TRUE)

\* a load that invoked post-load hooks of both kinds
C8_Witness == Called({"load"}) /\ BothInvoked(POST_LOAD)

\* the names the selection rules of the Field Set pick for a schema: the
\* first rule that applies, less the class-level and the instance excludes
SelectedNames(self) ==
    LET declared == DOMAIN self.declared_fields
        chosen ==
            IF self.only # {} /\ self.opts.fields # {}
            THEN self.opts.fields \cap self.only
            ELSE IF self.only # {} THEN self.only
            ELSE IF self.opts.fields # {} THEN self.opts.fields
            ELSE IF self.opts.additional # {}
            THEN declared \cup self.opts.additional
            ELSE declared
    IN chosen \ (self.opts.exclude \cup self.exclude)

\* C9 as stated: whenever the Field Set has been produced, at construction
\* or by a dump, its keys are the names of the first selection rule that
\* applies less the excluded names.
C9_FieldSetIsSelection == DOMAIN schema.fields = SelectedNames(schema)

\* the dump that leaves excluded names in the Field Set: an empty collection
\* that is not falsy, dumped as many with update_fields
C9_EmptyCollectionDump ==
    /\ call.op = "dump" /\ call.many /\ call.update_fields
    /\ call.input.kind = "cursor" /\ call.input.items = <<>>
    /\ schema.hooks = 0
    /\ schema.exclude \cup schema.opts.exclude # {}

\* the required fields of the Field Set that some item of the input lacks
LackedRequired ==
    {f \in DOMAIN schema.fields :
        /\ schema.fields[f].required
        /\ \E i \in DOMAIN call.input.items : f \notin DOMAIN call.input.items[i]}

RequiredReported(f) ==
    \E i \in DOMAIN Reported :
        /\ Reported[i].path[2] = f
        /\ Reported[i].messages = <<<<"required", 0>>>>

\* C10 as stated: a load whose partial is a set of names reports no
\* required error for the absent fields it names, and reports one for every
\* other absent required field.
C10_PartialSetToleratesNamed ==
    Called({"load"}) /\ call.partial.kind = "names"
        => \A f \in LackedRequired :
              RequiredReported(f) <=> f \notin call.partial.names

\* C10 amended: a set given as partial counts as a boolean; a non-empty set
\* lets every required field be absent, an empty set lets none.
C10_PartialSetIsTruthValue ==
    Called({"load"}) /\ call.partial.kind = "names"
        => \A f \in LackedRequired :
              RequiredReported(f) <=> call.partial.names = {}

\* a load with partial = {"a"} of an item lacking required b, let through
C10_Witness ==
    /\ Called({"load"}) /\ call.partial.kind = "names"
    /\ call.partial.names = {"a"}
    /\ "b" \in LackedRequired
    /\ ~RequiredReported("b")

\* the partial mode in force for a call given None, True or False
EffectivePartial ==
    IF call.partial.kind = "none" THEN schema.partial ELSE call.partial.b

\* C11: a load with partial True reports no required error for any absent
\* required field, a load with partial False reports one for each; an
\* explicit True or False decides, the instance-level partial only when the
\* argument is None.
C11_PartialArgumentDecides ==
    Called({"load", "validate"}) /\ call.partial.kind # "names"
        => \A f \in LackedRequired : RequiredReported(f) <=> ~EffectivePartial

\* a load with partial=False on a partial=True instance that reports the
\* absent required field b
C11_Witness ==
    /\ Called({"load"}) /\ schema.partial
    /\ call.partial = ArgBool(FALSE)
    /\ "b" \in LackedRequired
    /\ RequiredReported("b")

\* what the call's input says about item `item` and field f of the Field
\* Set: its key is absent and required, its value does not convert, or a
\* field validator bound to f rejects the converted value
FieldFailure(item, f) ==
    LET field_obj == schema.fields[f]
    IN IF f \notin DOMAIN item
       THEN field_obj.required /\ ~bool(partial_of(schema, call.partial))
       ELSE \/ ~deserialize(field_obj, item[f]).ok
            \/ /\ \E k \in 1..schema.hooks : validates_field_name(k) = f
               /\ deserialize(field_obj, item[f]).value = 2

\* an item schema validator rejects the item
ItemSchemaFailure(item) ==
    /\ schema.hooks > 0
    /\ "b" \in DOMAIN schema.fields /\ "b" \in DOMAIN item
    /\ deserialize(schema.fields["b"], item["b"]) = [ok |-> TRUE, value |-> 3]

ItemFails(item) ==
    ItemSchemaFailure(item) \/ \E f \in DOMAIN schema.fields : FieldFailure(item, f)

\* the converted value of every key of the item that is in the Field Set
Populated(item, out) ==
    \A f \in DOMAIN schema.fields \cap DOMAIN item :
        /\ f \in DOMAIN out
        /\ out[f] = deserialize(schema.fields[f], item[f]).value

\* C12: in a load with many and index_errors a field failure of item i is
\* recorded under index i and the field's name, an item without failure
\* has no key under its index, and the result of every item without field
\* failure is populated whatever its siblings did.
C12_IndexedItemErrors ==
    Called({"load", "validate"}) /\ call.many /\ schema.opts.index_errors
        => LET items == call.input.items
           IN /\ \A i \in DOMAIN items, f \in DOMAIN schema.fields :
                    FieldFailure(items[i], f) => <<i - 1, f>> \in DOMAIN Errors
              /\ \A j \in DOMAIN Reported :
                    Reported[j].source \in {"field", VALIDATES}
                        => Reported[j].path[1] # NoIndex
              /\ \A p \in DOMAIN Errors :
                    p[1] # NoIndex
                        => p[1] + 1 \in DOMAIN items /\ ItemFails(items[p[1] + 1])
              /\ call.result.outcome = "returned"
                    => /\ Len(call.result.data.items) = Len(items)
                       /\ \A i \in DOMAIN items :
                             ~(\E f \in DOMAIN schema.fields : FieldFailure(items[i], f))
                                => Populated(items[i], call.result.data.items[i])

\* a load of a valid item followed by an invalid one: errors under index 1
\* only, the result of item 0 populated
C12_Witness ==
    /\ Called({"load"}) /\ call.many /\ schema.opts.index_errors
    /\ call.result.outcome = "returned"
    /\ Len(call.input.items) = 2
    /\ ~ItemFails(call.input.items[1])
    /\ \E f \in DOMAIN schema.fields : FieldFailure(call.input.items[2], f)
    /\ \E f \in DOMAIN schema.fields : <<1, f>> \in DOMAIN Errors
    /\ \A p \in DOMAIN Errors : p[1] = 1
    /\ Populated(call.input.items[1], call.result.data.items[1])
    /\ DOMAIN schema.fields \cap DOMAIN call.input.items[1] # {}

\* the same load on the same schema without strict
NonStrictLoad ==
    _do_load([schema EXCEPT !.strict = FALSE], call.input, ArgBool(call.many),
             call.partial, TRUE)

Range(s) == {s[i] : i \in DOMAIN s}

\* C13: a strict load in which a failure was reported raises one aggregate
\* error carrying the error map, the names of the offending fields, their
\* field contracts and the input as the caller passed it; without strict
\* the same input returns data together with the same error map.
C13_StrictRaisesAggregate ==
    call.op = "load" /\ schema.strict /\ Reported # <<>>
        => LET exc == call.result.exc
               names == {p[2] : p \in DOMAIN Errors}
           IN /\ call.result.outcome = "raised"
              /\ DOMAIN Errors # {}
              /\ exc.messages = Errors
              /\ exc.data = call.input
              /\ Range(exc.field_names) = names
              /\ Range(exc.fields) =
                    {schema.fields[n] : n \in names \cap DOMAIN schema.fields}
              /\ NonStrictLoad.outcome = "returned"
              /\ NonStrictLoad.errors = Errors
              /\ NonStrictLoad.data.kind = call.input.kind

\* a strict load with pre-load hooks that raised: the exception holds the
\* caller's input, not what the hooks made of it
C13_Witness ==
    /\ call.op = "load" /\ schema.strict /\ schema.hooks > 0
    /\ call.result.outcome = "raised"
    /\ Invoked(PRE_LOAD, TRUE) # {}
    /\ call.result.exc.data = call.input
    /\ call.result.exc.field_names # <<>>
    /\ NonStrictLoad.errors = call.result.exc.messages

\* what the schema, as the dump left it, loads from the data the dump returned
LoadOfDump == _do_load(schema, call.result.data, ArgBool(call.many), ArgNone, TRUE)

\* an item seen through the Field Set
OnFields(d) == [f \in DOMAIN schema.fields \cap DOMAIN d |-> d[f]]

Phase(tag) ==
    CASE tag = PRE_LOAD -> 1
      [] tag = DESERIALIZE -> 2
      [] tag = VALIDATES -> 3
      [] tag = VALIDATES_SCHEMA -> 4
      [] tag = ERROR_CHECK -> 5
      [] tag = HANDLE_ERROR -> 5
      [] tag = POST_LOAD -> 6
      [] OTHER -> 0

Phases == {Phase(Log[i].tag) : i \in DOMAIN Log}

\* C18: a load passes through pre-load hooks, field deserialization, field
\* validators, schema validators, the error check and post-load hooks in
\* that order: nothing of a later phase happens before anything of an
\* earlier one, and the error check happens once.
C18_LoadPhaseOrder ==
    Called({"load", "validate"})
        => /\ \A i, j \in DOMAIN Log : i < j => Phase(Log[i].tag) <= Phase(Log[j].tag)
           /\ 0 \notin Phases
           /\ Cardinality({i \in DOMAIN Log : Log[i].tag = ERROR_CHECK}) = 1

\* a load that went through all six phases
C18_Witness == Called({"load"}) /\ Phases = 1..6

\* how often schema validator k of a kind was invoked
SchemaValidatorRuns(pass_many, k) ==
    Cardinality({i \in Invoked(VALIDATES_SCHEMA, pass_many) : Log[i].k = k})

\* C19: a load invokes every registered schema validator, the batch ones
\* first and then the non-batch ones (once per item when many), whether or
\* not a conversion, a field validator or another schema validator failed
\* before.
C19_AllSchemaValidatorsRun ==
    Called({"load", "validate"})
        => /\ Before(VALIDATES_SCHEMA, TRUE)
           /\ \A k \in 1..schema.hooks :
                 /\ SchemaValidatorRuns(TRUE, k) = 1
                 /\ SchemaValidatorRuns(FALSE, k) =
                        IF call.many THEN Len(call.input.items) ELSE 1

\* a load of two items in which a conversion, a field validator and the
\* first batch schema validator failed, and every later validator still ran
C19_Witness ==
    /\ Called({"load"}) /\ call.many /\ Len(call.input.items) = 2
    /\ schema.hooks = NumHooks
    /\ \E i \in DOMAIN Reported :
          Reported[i].source = "field" /\ Reported[i].messages = <<<<"invalid", 0>>>>
    /\ \E i \in DOMAIN Reported : Reported[i].source = VALIDATES
    /\ \E i \in DOMAIN Reported :
          Reported[i].source = "schema_many" /\ Reported[i].messages[1][2] = 1
    /\ \A k \in 1..schema.hooks :
          SchemaValidatorRuns(TRUE, k) = 1 /\ SchemaValidatorRuns(FALSE, k) = 2

\* the positions of the input's items whose deserialized result holds key f
HoldingKey(f) ==
    LET items == call.input.items
    IN SelectSeq([i \in 1..Len(items) |-> i],
                 LAMBDA i : /\ f \in DOMAIN schema.fields
                            /\ f \in DOMAIN items[i]
                            /\ deserialize(schema.fields[f], items[i][f]).ok)

\* the values field validator k was invoked with, in the order of invocation
ValidatedValues(k) ==
    LET f == validates_field_name(k)
        runs == SelectSeq(Log, LAMBDA e : e.tag = VALIDATES /\ e.k = k)
    IN [i \in 1..Len(runs) |-> runs[i].arg.items[1][f]]

\* the key under which a failure of item i (counted from 1) is recorded
ItemIndex(i) ==
    IF call.many /\ schema.opts.index_errors THEN i - 1 ELSE NoIndex

\* C20: the field validator bound to f is invoked for exactly the items
\* whose deserialized result holds key f, with the deserialized value, and
\* a failure it reports is recorded under f (under the item's index first
\* when many and index_errors are true).
C20_FieldValidators ==
    Called({"load", "validate"})
        => /\ \A k \in 1..schema.hooks :
                 LET f == validates_field_name(k)
                     at == HoldingKey(f)
                     items == call.input.items
                 IN /\ ValidatedValues(k) =
                          [i \in 1..Len(at) |->
                              deserialize(schema.fields[f], items[at[i]][f]).value]
                    /\ \A i \in 1..Len(at) :
                          deserialize(schema.fields[f], items[at[i]][f]).value = 2
                             => /\ <<ItemIndex(at[i]), f>> \in DOMAIN Errors
                                /\ \E m \in DOMAIN Errors[<<ItemIndex(at[i]), f>>] :
                                      Errors[<<ItemIndex(at[i]), f>>][m] = <<VALIDATES, k>>
           /\ \A j \in DOMAIN Reported :
                 Reported[j].source = VALIDATES
                    => LET k == Reported[j].messages[1][2]
                           f == validates_field_name(k)
                       IN /\ Reported[j].path[2] = f
                          /\ \E i \in Range(HoldingKey(f)) :
                                Reported[j].path[1] = ItemIndex(i)

\* a load of two items: the validator of a is skipped for the first, whose
\* a did not convert, and rejects the second under index 1 and key a
C20_Witness ==
    /\ Called({"load"}) /\ call.many /\ schema.opts.index_errors
    /\ schema.hooks > 0 /\ "a" \in DOMAIN schema.fields
    /\ Len(call.input.items) = 2
    /\ HoldingKey("a") = <<2>>
    /\ ValidatedValues(1) = <<2>>
    /\ <<1, "a">> \in DOMAIN Errors
    /\ \E j \in DOMAIN Reported :
          Reported[j].source = VALIDATES /\ Reported[j].path = <<1, "a">>

\* the Field Set the constructor bound
BoundAtInit == _update_fields(schema, None, schema.many).fields

\* what the pre-dump hooks handed on
ProcessedObj ==
    _invoke_dump_processors(schema, PRE_DUMP, Start(call.input, NoErrors),
                            call.many).data

\* the output item holds the fields of the Field Set that the object has
\* and that serialize, converted by the contracts of the Field Set
SerializedWith(fields_dict, obj, out) ==
    /\ DOMAIN out \ {"t"} \subseteq DOMAIN fields_dict
    /\ \A f \in DOMAIN fields_dict \cap DOMAIN obj :
          serialize(fields_dict[f], obj[f]).ok
             => f \in DOMAIN out /\ out[f] = serialize(fields_dict[f], obj[f]).value

\* C22: a dump with update_fields false leaves the Field Set as it was and
\* serializes with it; a dump with update_fields true binds the Field Set
\* again from what the pre-dump hooks returned, and serializes with that.
C22_DumpUpdateFields ==
    call.op = "dump"
        => /\ ~call.update_fields \/ call.result.outcome = "lookup_error"
                => schema.fields = BoundAtInit
           /\ call.update_fields /\ call.result.outcome # "lookup_error"
                => schema.fields = _update_fields(schema, ProcessedObj, call.many).fields
           /\ call.result.outcome = "returned"
                => /\ Len(call.result.data.items) = Len(call.input.items)
                   /\ \A i \in DOMAIN call.input.items :
                         SerializedWith(schema.fields, call.input.items[i],
                                        call.result.data.items[i])

\* a dump with update_fields of an object whose c is a string: the Field
\* Set changes and the output is converted by the new contract of c
C22_Witness ==
    /\ call.op = "dump" /\ call.update_fields
    /\ call.result.outcome = "returned"
    /\ "c" \in DOMAIN schema.fields
    /\ schema.fields # BoundAtInit
    /\ call.input.items # <<>>
    /\ "c" \in DOMAIN call.result.data.items[1]
    /\ call.result.data.items[1]["c"] # call.input.items[1]["c"]

\* the fields of the Field Set that the object has and that do not serialize
FailingFields(obj) ==
    {f \in DOMAIN schema.fields \cap DOMAIN obj :
        ~serialize(schema.fields[f], obj[f]).ok}

\* what the marshaller makes of an object: every field that serializes
BestEffort(obj) ==
    [f \in (DOMAIN schema.fields \cap DOMAIN obj) \ FailingFields(obj) |->
        serialize(schema.fields[f], obj[f]).value]

\* C25: in a dump without strict in which a field fails to serialize, the
\* error handler is called once and before every post-dump hook, the
\* post-dump hooks run all the same and start from the best-effort output,
\* the call returns the output with the error map, every failing field is
\* in the map, and every other field of every item is in the output.
C25_DumpErrorsHandled ==
    /\ call.op = "dump" /\ ~schema.strict
    /\ call.result.outcome # "lookup_error"
    /\ \E i \in DOMAIN call.input.items : FailingFields(call.input.items[i]) # {}
    => /\ call.result.outcome = "returned"
       /\ Cardinality({i \in DOMAIN Log : Log[i].tag = HANDLE_ERROR}) = 1
       /\ \A i, j \in DOMAIN Log :
             Log[i].tag = HANDLE_ERROR /\ Log[j].tag = POST_DUMP => i < j
       /\ schema.hooks > 0
             => /\ Cardinality({i \in Invoked(POST_DUMP, FALSE) : Log[i].k = 1})
                      = Len(call.input.items)
                /\ \A i \in Invoked(POST_DUMP, FALSE) :
                      Log[i].k = 1
                         => \E j \in DOMAIN call.input.items :
                               Log[i].arg.items[1] = BestEffort(call.input.items[j])
                /\ Cardinality(Invoked(POST_DUMP, TRUE)) = schema.hooks
       /\ Errors = call.result.store
       /\ Len(call.result.data.items) = Len(call.input.items)
       /\ \A i \in DOMAIN call.input.items :
             /\ \A f \in FailingFields(call.input.items[i]) :
                   /\ <<ItemIndex(i), f>> \in DOMAIN Errors
                   /\ f \notin DOMAIN call.result.data.items[i]
             /\ \A f \in DOMAIN BestEffort(call.input.items[i]) :
                   /\ f \in DOMAIN call.result.data.items[i]
                   /\ call.result.data.items[i][f] = BestEffort(call.input.items[i])[f]

\* a dump of two items with post-dump hooks: a field of the first item fails
\* and the second item is serialized whole
C25_Witness ==
    /\ call.op = "dump" /\ ~schema.strict /\ call.many /\ schema.hooks > 0
    /\ call.result.outcome = "returned"
    /\ Len(call.input.items) = 2
    /\ FailingFields(call.input.items[1]) # {}
    /\ FailingFields(call.input.items[2]) = {}
    /\ DOMAIN BestEffort(call.input.items[1]) # {}
    /\ DOMAIN Errors # {}
    /\ Invoked(POST_DUMP, TRUE) # {}

\* C26 as stated: in a load with many and without index_errors no key of
\* the error map is an item index: the failures of field conversion, of
\* field validators and of item schema validators are all recorded under
\* the name alone.
C26_NoIndexWithoutIndexErrors ==
    call.op = "load" /\ call.many /\ ~schema.opts.index_errors
        => \A p \in DOMAIN Errors : p[1] = NoIndex

\* a load with many and without index_errors in which an item schema
\* validator failed: its messages are under the index of the item, while
\* those of field conversion and of field validators are not
C26_ItemValidatorIndexed ==
    /\ call.op = "load" /\ call.many /\ ~schema.opts.index_errors
    /\ \E i \in DOMAIN Reported :
          Reported[i].source = "schema" /\ Reported[i].path[1] # NoIndex
    /\ \A i \in DOMAIN Reported :
          Reported[i].source \in {"field", "validates"}
             => Reported[i].path[1] = NoIndex
    /\ \E p \in DOMAIN Errors : p[1] # NoIndex

\* the instance as the one call made on it found it
BeforeCall == [schema EXCEPT !.unmarshal_errors = NoErrors, !.marshal_errors = NoErrors]

\* what load(data, many) gives on the instance
LoadTwin == _do_load(BeforeCall, call.input, ArgBool(call.many), ArgNone, TRUE)

\* what the call of _do_load that validate(data, many) makes gives
ValidateTwin == _do_load(BeforeCall, call.input, ArgBool(call.many), ArgNone, FALSE)

WithoutPostLoad(log) == SelectSeq(log, LAMBDA e : e.tag # POST_LOAD)

\* C27: validate(data, many) and load(data, many) on the same instance give
\* the same error map, and one raises exactly when the other does, with the
\* same exception; validate invokes no post-load hook and, those apart,
\* invokes what load invokes.
C27_ValidateIsLoadWithoutPostLoad ==
    /\ call.op = "validate"
          => /\ Errors = LoadTwin.errors
             /\ call.result.outcome = LoadTwin.outcome
             /\ call.result.exc = LoadTwin.exc
             /\ Invoked(POST_LOAD, TRUE) \cup Invoked(POST_LOAD, FALSE) = {}
             /\ Log = WithoutPostLoad(LoadTwin.log)
    /\ call.op = "load" /\ call.partial = ArgNone
          => /\ Errors = ValidateTwin.errors
             /\ call.result.outcome = ValidateTwin.outcome
             /\ call.result.exc = ValidateTwin.exc
             /\ WithoutPostLoad(Log) = ValidateTwin.log

\* a validate of data that load accepts, hands to its post-load hooks and
\* returns changed by them
C27_Witness ==
    /\ call.op = "validate"
    /\ DOMAIN Errors = {}
    /\ \E i \in DOMAIN LoadTwin.log : LoadTwin.log[i].tag = POST_LOAD
    /\ LoadTwin.data # call.result.data

(***************************************************************************)
(* Properties of sequences of calls (specification SeqSpec).               *)
(***************************************************************************)
\* C17: over any sequence of calls on one instance, the error map of a dump,
\* load or validate holds exactly the failures reported during that call;
\* a call without failure has an empty error map whatever the earlier
\* calls on the instance left behind.
C17_ErrorsOfThisCallOnly ==
    Called({"load", "validate", "dump"})
        => /\ Errors = Merged(Reported)
           /\ Reported = <<>> => DOMAIN Errors = {}

\* a call without failure, after a call of the same kind on the same
\* instance that ended with errors
C17_Witness ==
    /\ Called({"load", "dump"})
    /\ call.result.outcome = "returned"
    /\ DOMAIN Errors = {}
    /\ call.input.items # <<>>
    /\ \E i \in DOMAIN call.history :
          call.history[i].op = call.op /\ call.history[i].failed

(***************************************************************************)
(* Properties of class definition (specification ClassSpec).               *)
(***************************************************************************)
\* the class Meta in force for the last class statement: its own, or the
\* one it inherits
ClassMeta == IF call.Meta.given THEN call.Meta ELSE call.base.Meta

\* C14: a class statement whose configuration sets both the fields
\* allow-list and additional raises the configuration error, whatever else
\* it declares, and no class with both set exists.
C14_FieldsAdditionalConflict ==
    /\ ~(schema.opts.fields # {} /\ schema.opts.additional # {})
    /\ ~(schema.Meta.fields # {} /\ schema.Meta.additional # {})
    /\ call.op = "class"
          => /\ call.raised <=> (ClassMeta.fields # {} /\ ClassMeta.additional # {})
             /\ call.raised => schema = call.base

\* a class statement with both options set, on a derived base, that raised
C14_Witness ==
    /\ call.op = "class" /\ call.raised
    /\ call.Meta.fields # {} /\ call.Meta.additional # {}
    /\ schema = call.base
    /\ Len(schema.mro) > 1

\* the names the last class statement declares itself: its field-valued
\* attributes and the include option of its configuration
OwnNames ==
    {n \in DOMAIN call.attrs : is_field(call.attrs[n])} \cup DOMAIN ClassMeta.include

\* C15: the declared fields of a class are the inherited ones under the
\* names the class does not declare, together with the ones it declares; a
\* same-named declaration of the class replaces the inherited one, and so
\* along the chain the more derived declaration wins.
C15_DeclaredFieldsInheritance ==
    call.op = "class" /\ ~call.raised
        => LET inherited == call.base._declared_fields
           IN schema._declared_fields =
                 [n \in (DOMAIN inherited \ OwnNames) \cup OwnNames |->
                     IF n \in DOMAIN ClassMeta.include THEN ClassMeta.include[n]
                     ELSE IF n \in OwnNames THEN call.attrs[n]
                     ELSE inherited[n]]

\* a class two levels down that replaces the inherited a and keeps the
\* inherited b
C15_Witness ==
    /\ call.op = "class" /\ ~call.raised
    /\ Len(schema.mro) >= 4
    /\ {"a", "b"} \subseteq DOMAIN call.base._declared_fields
    /\ "a" \in DOMAIN call.attrs /\ is_field(call.attrs["a"])
    /\ "a" \notin DOMAIN ClassMeta.include
    /\ "b" \notin OwnNames
    /\ call.attrs["a"] # call.base._declared_fields["a"]
    /\ schema._declared_fields["a"] = call.attrs["a"]
    /\ schema._declared_fields["b"] = call.base._declared_fields["b"]

(***************************************************************************)
(* Further properties of sequences of calls (specification SeqSpec).       *)
(***************************************************************************)
Excluded == schema.opts.exclude \cup schema.exclude

\* C21 as stated: after construction and after any sequence of dump and
\* load calls, also dumps of empty collections with update_fields, no
\* excluded name is a key of the Field Set.
C21_ExcludedNeverBound == DOMAIN schema.fields \cap Excluded = {}

\* a load on an instance whose earlier dump of an empty collection put an
\* excluded name back into the Field Set
C21_ExcludedBoundAfterDump ==
    /\ call.op = "load"
    /\ \E i \in DOMAIN call.history : call.history[i].op = "dump"
    /\ DOMAIN schema.fields \cap Excluded # {}

\* C23: a load or a validate leaves the Field Set of the instance as the
\* call found it.
C23_LoadKeepsFieldSet ==
    [][call'.op \in {"load", "validate"} => schema'.fields = schema.fields]_vars

\* a load or validate made after a dump that bound another Field Set than
\* the constructor's
C23_Witness ==
    /\ call.op \in {"load", "validate"}
    /\ call.history # <<>>
    /\ call.history[Len(call.history)].op = "dump"
    /\ call.history[Len(call.history)].fields # BoundAtInit
    /\ schema.fields = call.history[Len(call.history)].fields

(***************************************************************************)
(* Properties of binding the Field Set (specification FieldSpec).          *)
(***************************************************************************)
\* the selected names that are not declared fields
Implicit == field_names_of(schema) \ DOMAIN schema.declared_fields

\* the object the contracts are inferred from: the first element of a
\* collection, the object itself otherwise
HasRepresentative == call.input # None /\ call.input.items # <<>>

Representative == call.input.items[1]

\* C24 as stated: for a selected name that is not declared, the Field Set
\* gets a pass-through contract when there is no object, the contract the
\* type table gives for the representative's value when the representative
\* has the name, and the binding fails with a lookup error naming the name
\* when the object is there and lacks it.
C24_ImplicitContracts ==
    call.op = "_update_fields"
        => \A k \in Implicit :
              /\ call.input = None
                    => /\ call.result.outcome = "returned"
                       /\ schema.fields[k] = FieldObj("Field", FALSE)
              /\ HasRepresentative /\ Implicit \subseteq DOMAIN Representative
                    => /\ call.result.outcome = "returned"
                       /\ schema.fields[k]
                            = FieldObj(TYPE_MAPPING(TypeOf(Representative[k])), FALSE)
              /\ HasRepresentative /\ k \notin DOMAIN Representative
                    => /\ call.result.outcome = "lookup_error"
                       /\ call.result.exc.field_names = <<k>>

\* an object that is there, lacks the name and is false as a truth value (a
\* dict without keys): the name is bound to the pass-through contract and
\* nothing fails
C24_FalsyObjectBoundRaw ==
    /\ call.op = "_update_fields"
    /\ HasRepresentative /\ ~Truthy(call.input)
    /\ "c" \in Implicit /\ "c" \notin DOMAIN Representative
    /\ call.result.outcome = "returned"
    /\ schema.fields["c"] = FieldObj("Field", FALSE)

\* a new instance of the same configuration
FreshInstance ==
    [schema EXCEPT !.fields = BoundAtInit, !.unmarshal_errors = NoErrors,
                   !.marshal_errors = NoErrors]

\* what the same load gives on the new instance
FreshLoad ==
    _do_load(FreshInstance, call.input, ArgBool(call.many), call.partial, TRUE)

\* C28 as stated: a load gives the result and the error map that the same
\* load gives on a new instance of the same configuration, whatever calls,
\* dumps with update_fields among them, were made on the instance before.
C28_LoadIndependentOfHistory ==
    call.op = "load"
        => /\ call.result.outcome = FreshLoad.outcome
           /\ call.result.data = FreshLoad.data
           /\ Errors = FreshLoad.errors

\* a load after dumps only, which left the names of the Field Set as they
\* were and bound another contract for "c": the load gives another result
\* or error map than on a new instance
C28_LoadAfterDumpDiffers ==
    /\ call.op = "load"
    /\ call.history # <<>>
    /\ \A i \in DOMAIN call.history : call.history[i].op = "dump"
    /\ DOMAIN schema.fields = DOMAIN BoundAtInit
    /\ schema.fields # BoundAtInit
    /\ \/ call.result.data # FreshLoad.data
       \/ Errors # FreshLoad.errors

(***************************************************************************)
(* Properties of running the hooks of one key (specification HookSpec).    *)
(***************************************************************************)
\* the hooks were invoked item by item
PerItem == call.many /\ Log # <<>> /\ ~Log[1].pass_many

\* the log entries one hook leaves
Width == IF PerItem THEN Len(call.input.items) ELSE 1

\* what the k-th hook received, and what came of it for the next hook, or
\* for the caller after the last hook
Received(k) ==
    IF PerItem
    THEN List([i \in 1..Width |-> Log[(k - 1) * Width + i].arg.items[1]])
    ELSE Log[k].arg

Produced(k) == IF k = schema.hooks THEN call.result.data ELSE Received(k + 1)

\* what the k-th hook itself returns for `data`, or `data` when that is None
HookResult(k, data) ==
    IF processor(Log[1].pass_many, k, data) = None THEN data
    ELSE processor(Log[1].pass_many, k, data)

\* C29: the hooks of one key are chained: the first receives the data of
\* the call, each next one what the one before it produced, which is the
\* hook's result, or the data the hook received when it returned None; a
\* per-item hook over a collection produces a list of the same length whose
\* i-th place is the result for the i-th item.
C29_HooksChained ==
    call.op = "_invoke_processors"
        => /\ Log = <<>> => call.result.data = call.input
           /\ Log # <<>>
                => /\ Len(Log) = schema.hooks * Width
                   /\ Received(1) = call.input
                   /\ \A k \in 1..schema.hooks :
                         /\ \A i \in 1..Width : Log[(k - 1) * Width + i].k = k
                         /\ IF PerItem
                            THEN /\ Produced(k).kind = "list"
                                 /\ Len(Produced(k).items) = Len(call.input.items)
                                 /\ \A i \in 1..Width :
                                       Produced(k).items[i]
                                          = HookResult(k, Single(Received(k).items[i])).items[1]
                            ELSE Produced(k) = HookResult(k, Received(k))

\* three per-item hooks over two items: the second changes the items, the
\* third receives them changed and returns None, the caller gets them as
\* the second left them
C29_Witness ==
    /\ call.op = "_invoke_processors"
    /\ PerItem /\ schema.hooks = 3 /\ Width = 2
    /\ Received(2) = call.input
    /\ Received(3) # Received(2)
    /\ call.result.data = Received(3)

====
